---- MODULE Spec2Model ----
(***************************************************************************)
(* Model of moveitpy_simple/moveit_configs_utils/moveit_configs_builder.py *)
(*                                                                         *)
(* Python values are tagged records: None, a str holding a path (kept as   *)
(* its "/"-separated components), a pathlib.Path (components, absolute     *)
(* when the first component is "/"), a dict of a multi-variant section     *)
(* (an insertion-ordered list of key/value items), a substitution mapping  *)
(* and a value of any other type.  Plain dicts whose order is never read   *)
(* (the manifest and its [moveit_configs] block) are functions.            *)
(***************************************************************************)
EXTENDS Integers, Sequences, FiniteSets, TLC

VARIABLES fs, package, pc, stack, frame, err,
          package_path, default_configs, slots, calls, last, record

vars == <<fs, package, pc, stack, frame, err,
          package_path, default_configs, slots, calls, last, record>>

(***************************************************************************)
(* Bounds of the model.                                                    *)
(***************************************************************************)
\* extend_configs calls followed before the model stops following them
MaxDepth == 5
\* builder calls made on one builder
MaxCalls == 2

(***************************************************************************)
(* Values                                                                  *)
(***************************************************************************)
None == [t |-> "none"]
Str(s) == [t |-> "str", s |-> s]
PathV(p) == [t |-> "path", p |-> p]
DictV(items) == [t |-> "dict", items |-> items]
MapV(m) == [t |-> "map", m |-> m]
SVal(v) == [t |-> "sval", v |-> v]
NumV == [t |-> "num"]
Item(k, v) == [k |-> k, v |-> v]

EmptyDict == <<>>
EmptyMap == MapV(EmptyDict)

Ok(v) == [ok |-> TRUE, err |-> "none", val |-> v]
Err(e) == [ok |-> FALSE, err |-> e, val |-> None]

\* dict.get(k): None when the key is absent
Get(d, k) == IF k \in DOMAIN d THEN d[k] ELSE None
\* dict.get(k, default)
GetD(d, k, default) == IF k \in DOMAIN d THEN d[k] ELSE default
\* d[k] = v
Put(d, k, v) == [x \in (DOMAIN d) \cup {k} |-> IF x = k THEN v ELSE d[x]]
\* d.pop(k)
Pop(d, k) == [x \in (DOMAIN d) \ {k} |-> d[x]]

\* the keys of an ordered dict, in insertion order
Keys(items) == [i \in 1..Len(items) |-> items[i].k]
\* lookup in an ordered dict: None when the key is absent
ItemGet(items, k) ==
    IF \E i \in 1..Len(items) : items[i].k = k
    THEN items[CHOOSE i \in 1..Len(items) : items[i].k = k].v
    ELSE None

(***************************************************************************)
(* ConfigSections: the enumeration, in declaration order.                  *)
(***************************************************************************)
EXTEND == "extend"
MOVEIT_CONFIGS == "moveit_configs"
PLANNING_PIPELINES == "planning_pipelines"

ConfigSections ==
    << "extend", "moveit_configs", "robot_description",
       "robot_description_semantic", "sensors", "moveit_cpp",
       "robot_description_kinematics", "joint_limits",
       "trajectory_execution", "planning_pipelines",
       "pilz_cartesian_limits" >>

SectionSet == {ConfigSections[i] : i \in 1..Len(ConfigSections)}
DataSections == SectionSet \ {EXTEND, MOVEIT_CONFIGS}
SimpleSections == DataSections \ {PLANNING_PIPELINES}

\* the elements of a sequence that satisfy a test, order kept
RECURSIVE SelectIn(_, _)
SelectIn(seq, keep) ==
    IF Len(seq) = 0 THEN <<>>
    ELSE (IF Head(seq) \in keep THEN <<Head(seq)>> ELSE <<>>)
         \o SelectIn(Tail(seq), keep)

(***************************************************************************)
(* Paths and the file system                                               *)
(***************************************************************************)
Roots == {"A", "B", "C"}
RootDir(r) == <<"/", r>>
TomlName == "moveit_configs.toml"

\* the ament index: package name -> share directory
PackageIndex == [pkgA |-> RootDir("A"), pkgB |-> RootDir("B"), pkgC |-> RootDir("C")]

IsAbsolute(p) == Len(p) > 0 /\ p[1] = "/"
\* pathlib's a / b
PathJoin(a, b) == IF IsAbsolute(b) THEN b ELSE a \o b

\* the file-system object an absolute path leads to: ".." steps up
RECURSIVE NormFrom(_, _)
NormFrom(acc, p) ==
    IF Len(p) = 0 THEN acc
    ELSE IF Head(p) = ".."
         THEN NormFrom(IF Len(acc) > 1 THEN SubSeq(acc, 1, Len(acc) - 1) ELSE acc, Tail(p))
         ELSE NormFrom(Append(acc, Head(p)), Tail(p))
Norm(p) == IF IsAbsolute(p) THEN NormFrom(<<"/">>, Tail(p)) ELSE p

\* data files every root holds, and the sub-directory they are in
DataFileNames == {"a.urdf.xacro", "ompl_planning.yaml", "chomp_planning.yaml", "x.yaml"}
Dirs == {<<"/">>} \cup {RootDir(r) : r \in Roots}
             \cup {RootDir(r) \o <<"config">> : r \in Roots}
DataFiles == {RootDir(r) \o <<"config", f>> : r \in Roots, f \in DataFileNames}
TomlFile(r) == RootDir(r) \o <<TomlName>>
TomlFiles(world) == {TomlFile(r) : r \in world.hasToml}

IsFile(world, p) == Norm(p) \in DataFiles \cup TomlFiles(world)
Exists(world, p) == Norm(p) \in Dirs \/ IsFile(world, p)
Parent(p) == SubSeq(p, 1, Len(p) - 1)

\* toml.load of the manifest file at p
TomlLoad(world, p) == world.toml[CHOOSE r \in Roots : TomlFile(r) = Norm(p)]

(***************************************************************************)
(* Path resolver                                                           *)
(***************************************************************************)
IsPathLike(v) == v.t \in {"str", "path"}
Comps(v) == IF v.t = "str" THEN v.s ELSE v.p

\* get_full_path: a str is looked up in the package index, a Path must exist
GetFullPath(world, x) ==
    IF x.t = "str"
    THEN IF Len(x.s) = 1 /\ x.s[1] \in DOMAIN PackageIndex
         THEN Ok(PathV(PackageIndex[x.s[1]]))
         ELSE Err("PackageNotFoundError")
    ELSE IF x.t = "path"
         THEN IF Exists(world, x.p) THEN Ok(x) ELSE Err("PackageNotFoundError")
         ELSE Ok(None)

\* get_package_path, given get_full_path's result: the parent of a file
PackagePathOf(world, full) ==
    IF ~full.ok THEN full
    ELSE IF full.val = None THEN Err("AttributeError")
    ELSE IF IsFile(world, full.val.p) THEN Ok(PathV(Parent(full.val.p)))
    ELSE full

\* get_package_path
GetPackagePath(world, x) == PackagePathOf(world, GetFullPath(world, x))

\* "package://name/rel" as a str: components "package:", "", name, rel...
IsPackageUri(v) == v.t = "str" /\ Len(v.s) >= 2 /\ v.s[1] = "package:" /\ v.s[2] = ""

\* get_package_path(package_name) / relative_path
UriPath(pkg, relative_path) ==
    IF ~pkg.ok THEN pkg ELSE Ok(PathV(PathJoin(pkg.val.p, relative_path)))

\* normalize_path_value: a package URI becomes a Path, anything else is kept
NormalizePathValue(world, value) ==
    IF IsPackageUri(value)
    THEN IF Len(value.s) < 4 THEN Err("ValueError")
         ELSE UriPath(GetPackagePath(world, Str(<<value.s[3]>>)),
                      SubSeq(value.s, 4, Len(value.s)))
    ELSE Ok(value)

\* base / n, for the result n of normalize_path_value
JoinTo(base, n) ==
    IF ~n.ok THEN n
    ELSE IF ~IsPathLike(n.val) THEN Err("TypeError")
    ELSE Ok(PathV(PathJoin(base, Comps(n.val))))

\* base / normalize_path_value(value)
JoinNormalized(world, base, value) == JoinTo(base, NormalizePathValue(world, value))

\* load_moveit_configs_toml: {} when there is no manifest file
LoadMoveitConfigsToml(world, file_path) ==
    IF IsFile(world, file_path)
    THEN IF Norm(file_path) \in TomlFiles(world)
         THEN Ok(TomlLoad(world, file_path))
         ELSE Err("TomlDecodeError")
    ELSE IF Exists(world, file_path \o <<TomlName>>)
         THEN Ok(TomlLoad(world, file_path \o <<TomlName>>))
         ELSE Ok(EmptyDict)

(***************************************************************************)
(* Inheritance resolver                                                    *)
(***************************************************************************)
\* configs.get(ConfigSections.MOVEIT_CONFIGS, {})
Block(configs) == GetD(configs, MOVEIT_CONFIGS, EmptyDict)

\* the sections for which the [moveit_configs] block has no value
MissingSet(configs) == {s \in SectionSet : Get(Block(configs), s) = None}

\* get_missing_configs that reports every data section as missing
GetMissingConfigsAll(configs) ==
    IF MOVEIT_CONFIGS \notin MissingSet(configs) THEN Err("ValueError")
    ELSE Ok(SelectIn(ConfigSections, DataSections))

\* get_missing_configs: the data sections with no value, in enumeration order
GetMissingConfigs(configs) ==
    IF MOVEIT_CONFIGS \notin MissingSet(configs) THEN Err("ValueError")
    ELSE Ok(SelectIn(ConfigSections, MissingSet(configs) \ {MOVEIT_CONFIGS, EXTEND}))

\* one value of the dict comprehension of extend_configs
ResolveItem(world, base_package, value) ==
    IF IsPathLike(value) THEN JoinNormalized(world, base_package, value)
    ELSE NormalizePathValue(world, value)

ConsItem(key, v, rest) ==
    IF ~v.ok THEN v
    ELSE IF ~rest.ok THEN rest
    ELSE Ok(<<Item(key, v.val)>> \o rest.val)

\* the dict comprehension of extend_configs over the items of a sub-mapping
RECURSIVE ResolveItems(_, _, _)
ResolveItems(world, base_package, items) ==
    IF Len(items) = 0 THEN Ok(<<>>)
    ELSE ConsItem(Head(items).k,
                  ResolveItem(world, base_package, Head(items).v),
                  ResolveItems(world, base_package, Tail(items)))

AsDict(r) == IF ~r.ok THEN r ELSE Ok(DictV(r.val))

\* the value of the base package taken over as it is declared there
ResolveSectionValueAsDeclared(world, base_package, value) ==
    IF IsPathLike(value) \/ value.t = "dict" THEN Ok(value) ELSE Err("TypeError")

\* the value a missing section takes from the base package
ResolveSectionValue(world, base_package, value) ==
    IF IsPathLike(value) THEN JoinNormalized(world, base_package, value)
    ELSE IF value.t = "dict" THEN AsDict(ResolveItems(world, base_package, value.items))
    ELSE Err("TypeError")

\* the two assignments of the loop body: the section's value, then its
\* substitution table as the base package has it (None when it has none)
Inherit(extended, section, r, base_mapping) ==
    IF ~r.ok THEN r
    ELSE Ok(Put(Put(extended, MOVEIT_CONFIGS, Put(Block(extended), section, r.val)),
                section, base_mapping))

\* the loop body of extend_configs for one missing section
ExtendSection(world, section, base_package, base_configs, extended) ==
    IF Get(Block(base_configs), section) = None THEN Ok(extended)
    ELSE Inherit(extended, section,
                 ResolveSectionValue(world, base_package, Get(Block(base_configs), section)),
                 Get(base_configs, section))

\* the loop of extend_configs over the missing sections; acc is the extended
\* manifest so far, or the error that ended the loop
RECURSIVE ExtendSections(_, _, _, _, _)
ExtendSections(world, sections, base_package, base_configs, acc) ==
    IF Len(sections) = 0 \/ ~acc.ok THEN acc
    ELSE ExtendSections(world, Tail(sections), base_package, base_configs,
             ExtendSection(world, Head(sections), base_package, base_configs, acc.val))

Return(configs) == [kind |-> "return", configs |-> configs]
Recurse(p, configs) == [kind |-> "recurse", package_path |-> p, configs |-> configs]
Raise(e) == [kind |-> "raise", err |-> e]

\* lines 270-273: the recursive call on the base package
RecurseOn(base_package, ext) ==
    IF ~ext.ok THEN Raise(ext.err) ELSE Recurse(base_package, ext.val)

\* lines 236-268 without line 239: the base package's extend is not taken over
ExtendLoadedOnce(world, configs, missing, base_package, loaded) ==
    IF ~loaded.ok THEN Raise(loaded.err)
    ELSE RecurseOn(base_package,
             ExtendSections(world, missing, base_package, loaded.val,
                 Ok(Put(configs, MOVEIT_CONFIGS, Pop(Block(configs), EXTEND)))))

\* lines 236-268, given the base package's manifest
ExtendLoaded(world, configs, missing, base_package, loaded) ==
    IF ~loaded.ok THEN Raise(loaded.err)
    ELSE RecurseOn(base_package,
             ExtendSections(world, Append(missing, EXTEND), base_package, loaded.val,
                 Ok(Put(configs, MOVEIT_CONFIGS, Pop(Block(configs), EXTEND)))))

\* lines 234-235, given get_package_path's and get_full_path's results
ExtendWith(world, configs, missing, base, full) ==
    IF ~base.ok THEN Raise(base.err)
    ELSE ExtendLoaded(world, configs, missing, base.val.p,
                      LoadMoveitConfigsToml(world, full.val.p))

\* lines 229-233: the target below package_path when that exists, else the
\* target as it is
BaseConfigPath(world, pkg_path, base_package) ==
    IF Exists(world, PathJoin(pkg_path, Comps(base_package)))
    THEN PathV(PathJoin(pkg_path, Comps(base_package)))
    ELSE base_package

ExtendFrom(world, configs, missing, base_config_path) ==
    ExtendWith(world, configs, missing,
               GetPackagePath(world, base_config_path),
               GetFullPath(world, base_config_path))

\* lines 219-228: the base case
ExtendMissing(world, pkg_path, configs, missing, base_package) ==
    IF ~missing.ok THEN Raise(missing.err)
    ELSE IF Len(missing.val) = 0 \/ base_package = None THEN Return(configs)
    ELSE IF ~IsPathLike(base_package) THEN Raise("TypeError")
    ELSE ExtendFrom(world, configs, missing.val,
                    BaseConfigPath(world, pkg_path, base_package))

\* one invocation of extend_configs, up to its return, its raise or its
\* recursive call
ExtendConfigs(world, pkg_path, configs) ==
    ExtendMissing(world, pkg_path, configs, GetMissingConfigs(configs),
                  Get(Block(configs), EXTEND))

(***************************************************************************)
(* Entry builder                                                           *)
(***************************************************************************)
ConfigEntry(path, mappings) == [t |-> "entry", path |-> path, mappings |-> mappings]
PlanningPipelinesConfigEntry(pipelines, configs, default) ==
    [t |-> "pipelines", pipelines |-> pipelines, configs |-> configs,
     default_planning_pipeline |-> default]
ListV(l) == [t |-> "list", l |-> l]

\* the truth value Python gives a str, a mapping or None
Truthy(v) ==
    CASE v.t = "none" -> FALSE
      [] v.t = "str"  -> Len(v.s) > 0
      [] v.t = "sval" -> v.v # ""
      [] v.t = "map"  -> DOMAIN v.m # {}
      [] OTHER        -> TRUE

\* x or {}
OrEmpty(x) == IF Truthy(x) THEN x ELSE EmptyMap

\* file_loaders.raise_if_file_not_found
RaiseIfFileNotFound(world, file_path) ==
    IF Exists(world, file_path) THEN Ok(None) ELSE Err("FileNotFoundError")

EntryIfFound(found, file_path, mappings) ==
    IF ~found.ok THEN found ELSE Ok(ConfigEntry(file_path, OrEmpty(mappings)))

\* _make_config_entry_from_file
MakeConfigEntryFromFile(world, file_path, mappings) ==
    EntryIfFound(RaiseIfFileNotFound(world, file_path), file_path, mappings)

NotLoaded == "RuntimeError: default configs are not loaded"
NoBlock == "RuntimeError: no [moveit_configs] section"
NoValue == "RuntimeError: no value for the section"
NoOption == "RuntimeError: no value for the option"
InvalidDefault == "RuntimeError: default_planning_pipeline names no pipeline"

\* lines 454-456: the mappings of an entry made from a section
SectionMappings(configs, section, option) ==
    IF Truthy(option)
    THEN GetD(OrEmpty(Get(configs, section)).m, option.v, EmptyMap)
    ELSE GetD(configs, section, EmptyMap)

\* lines 451-457
EntryAt(path, mappings) ==
    IF ~path.ok THEN path ELSE Ok(ConfigEntry(path.val.p, mappings))

\* lines 445-457, given the section's value or the value under the option
EntryFromPicked(world, pkg_path, configs, section, option, picked) ==
    IF picked = None THEN Err(NoOption)
    ELSE EntryAt(JoinNormalized(world, pkg_path, picked),
                 SectionMappings(configs, section, option))

\* lines 439-457, given the section's value
EntryFromValue(world, pkg_path, configs, section, option, value) ==
    IF value = None THEN Err(NoValue)
    ELSE IF Truthy(option) /\ value.t # "dict" THEN Err("AttributeError")
    ELSE EntryFromPicked(world, pkg_path, configs, section, option,
             IF Truthy(option) THEN ItemGet(value.items, option.v) ELSE value)

\* _make_config_entry_from_section (option: None or the name of a sub-key)
MakeConfigEntryFromSection(world, pkg_path, configs, section, option) ==
    IF DOMAIN configs = {} THEN Err(NotLoaded)
    ELSE IF MOVEIT_CONFIGS \notin DOMAIN configs THEN Err(NoBlock)
    ELSE EntryFromValue(world, pkg_path, configs, section, option,
                        Get(configs[MOVEIT_CONFIGS], section))

(***************************************************************************)
(* Builder facade                                                          *)
(***************************************************************************)
\* a setter that reads the manifest before it looks at file_path
SetterEntryManifestFirst(world, pkg_path, configs, section, file_path, mappings) ==
    IF DOMAIN configs = {} THEN Err(NotLoaded)
    ELSE IF Truthy(file_path)
    THEN MakeConfigEntryFromFile(world, PathJoin(pkg_path, Comps(file_path)), mappings)
    ELSE MakeConfigEntryFromSection(world, pkg_path, configs, section, None)

\* the body shared by the eight single-file setters: the entry to store
SetterEntry(world, pkg_path, configs, section, file_path, mappings) ==
    IF Truthy(file_path)
    THEN MakeConfigEntryFromFile(world, PathJoin(pkg_path, Comps(file_path)), mappings)
    ELSE MakeConfigEntryFromSection(world, pkg_path, configs, section, None)

ConsEntry(e, rest) ==
    IF ~e.ok THEN e
    ELSE IF ~rest.ok THEN rest
    ELSE Ok(<<e.val>> \o rest.val)

\* the list comprehension of planning_pipelines over explicit names
RECURSIVE EntriesFromFiles(_, _, _, _)
EntriesFromFiles(world, pkg_path, pipelines, mappings) ==
    IF Len(pipelines) = 0 THEN Ok(<<>>)
    ELSE ConsEntry(MakeConfigEntryFromFile(world,
                       PathJoin(PathJoin(pkg_path, <<"config">>),
                                <<Head(pipelines) \o "_planning.yaml">>),
                       mappings),
                   EntriesFromFiles(world, pkg_path, Tail(pipelines), mappings))

\* the list comprehension of planning_pipelines over the manifest's names
RECURSIVE EntriesFromSection(_, _, _, _)
EntriesFromSection(world, pkg_path, configs, pipelines) ==
    IF Len(pipelines) = 0 THEN Ok(<<>>)
    ELSE ConsEntry(MakeConfigEntryFromSection(world, pkg_path, configs,
                       PLANNING_PIPELINES, SVal(Head(pipelines))),
                   EntriesFromSection(world, pkg_path, configs, Tail(pipelines)))

InList(x, list) == \E i \in 1..Len(list) : list[i] = x

\* lines 691-692 left out: the default is the one given
DefaultPipelineAsGiven(pipelines, default_planning_pipeline) == default_planning_pipeline

\* lines 691-692: "ompl" when no default is given and "ompl" is a pipeline
DefaultPipeline(pipelines, default_planning_pipeline) ==
    IF ~Truthy(default_planning_pipeline) /\ InList("ompl", pipelines)
    THEN SVal("ompl")
    ELSE default_planning_pipeline

\* lines 694-704 without the membership test of line 694
StoreDefaultUnchecked(pipelines, configs, default) ==
    IF default.t # "sval" THEN Err(InvalidDefault)
    ELSE Ok(PlanningPipelinesConfigEntry(pipelines, configs, default.v))

\* lines 694-704: the entry to store, for the default chosen
StoreDefault(pipelines, configs, default) ==
    IF ~(default.t = "sval" /\ InList(default.v, pipelines))
    THEN Err(InvalidDefault)
    ELSE Ok(PlanningPipelinesConfigEntry(pipelines, configs, default.v))

\* lines 690-704, given the pipelines' entries
ChooseDefault(pipelines, es, default_planning_pipeline) ==
    IF ~es.ok THEN es
    ELSE StoreDefault(pipelines, es.val,
                      DefaultPipeline(pipelines, default_planning_pipeline))

\* lines 677-688: the pipelines of the manifest
PipelinesFromManifest(world, pkg_path, configs, value, default_planning_pipeline) ==
    IF value.t # "dict" THEN Err("AttributeError")
    ELSE ChooseDefault(Keys(value.items),
                       EntriesFromSection(world, pkg_path, configs, Keys(value.items)),
                       default_planning_pipeline)

\* planning_pipelines: the entry to store (pipelines: None or a list of names)
PlanningPipelinesEntry(world, pkg_path, configs, pipelines, default_planning_pipeline, mappings) ==
    IF pipelines # None
    THEN ChooseDefault(pipelines.l,
                       EntriesFromFiles(world, pkg_path, pipelines.l, mappings),
                       default_planning_pipeline)
    ELSE PipelinesFromManifest(world, pkg_path, configs,
                               GetD(Block(configs), PLANNING_PIPELINES, DictV(<<>>)),
                               default_planning_pipeline)

\* load_all calling the setter of every data section
ExistingConfigsAll(configs) == SelectIn(ConfigSections, DataSections)

\* load_all: the sections with a value, in enumeration order
ExistingConfigs(configs) ==
    SelectIn(ConfigSections, {s \in SectionSet : Get(Block(configs), s) # None})

\* a setter called by load_all: the slots after it and the error it raised
Assigned(sl, section, e) ==
    IF e.ok THEN [slots |-> [sl EXCEPT ![section] = e.val], err |-> "none"]
    ELSE [slots |-> sl, err |-> e.err]

\* the match statement of load_all for one existing section
LoadOne(world, pkg_path, configs, section, sl) ==
    IF section \in SimpleSections
    THEN Assigned(sl, section,
                  SetterEntry(world, pkg_path, configs, section, None, None))
    ELSE IF section = PLANNING_PIPELINES
    THEN Assigned(sl, section,
                  PlanningPipelinesEntry(world, pkg_path, configs, None, None, None))
    ELSE [slots |-> sl, err |-> "none"]

\* the loop of load_all: the slots after it, and the error that ended it
RECURSIVE LoadAllFrom(_, _, _, _, _)
LoadAllFrom(world, pkg_path, configs, existing, acc) ==
    IF Len(existing) = 0 \/ acc.err # "none" THEN acc
    ELSE LoadAllFrom(world, pkg_path, configs, Tail(existing),
                     LoadOne(world, pkg_path, configs, Head(existing), acc.slots))

\* load_all
LoadAll(world, pkg_path, configs, sl) ==
    LoadAllFrom(world, pkg_path, configs, ExistingConfigs(configs),
                [slots |-> sl, err |-> "none"])

(***************************************************************************)
(* Materializer                                                            *)
(***************************************************************************)
\* the keys of the mapping a yaml file holds, by the file's name
YamlKeys(file_path) ==
    IF file_path[Len(file_path)] = "x.yaml" THEN {"x", "y"} ELSE {"planning_plugin"}

\* file_loaders.load_yaml: the mapping of the file, each value marked with
\* the file it comes from and the substitutions applied to it
LoadYaml(world, file_path, mappings) ==
    IF ~IsFile(world, file_path) THEN Err("FileNotFoundError")
    ELSE Ok([k \in YamlKeys(Norm(file_path)) |->
                [t |-> "yaml", file |-> Norm(file_path), key |-> k, mappings |-> mappings]])

\* file_loaders.load_xacro: the expanded text
LoadXacro(world, file_path, mappings) ==
    IF ~IsFile(world, file_path) THEN Err("FileNotFoundError")
    ELSE Ok([t |-> "xacro", file |-> Norm(file_path), mappings |-> mappings])

\* all(isinstance(key, str) and isinstance(value, str) ...) over a mapping
AllStrings(mappings) == \A k \in DOMAIN mappings.m : mappings.m[k].t = "sval"

\* the value stored for robot_description and robot_description_semantic
DescriptionValue(world, entry) ==
    IF entry.mappings = None \/ (entry.mappings.t = "map" /\ AllStrings(entry.mappings))
    THEN LoadXacro(world, entry.path, entry.mappings)
    ELSE Ok([t |-> "ParameterValue", file |-> entry.path, mappings |-> entry.mappings])

\* {key: value}, for a loaded value
Under(key, v) == IF ~v.ok THEN v ELSE Ok(key :> v.val)
AsMap(y) == IF ~y.ok THEN y ELSE Ok(MapV(y.val))

AddPipeline(acc, pipeline, y) == IF ~y.ok THEN y ELSE Ok(Put(acc, pipeline, MapV(y.val)))

\* the loaded mappings of the pipelines, keyed by pipeline name (zip, strict)
RECURSIVE LoadPipelines(_, _, _, _)
LoadPipelines(world, pipelines, configs, acc) ==
    IF Len(pipelines) = 0 \/ ~acc.ok THEN acc
    ELSE LoadPipelines(world, Tail(pipelines), Tail(configs),
             AddPipeline(acc.val, Head(pipelines),
                         LoadYaml(world, Head(configs).path, Head(configs).mappings)))

\* MoveItConfigs(): every field at its default
EmptyMoveItConfigs ==
    [package_path |-> None,
     robot_description |-> EmptyDict,
     robot_description_semantic |-> EmptyDict,
     robot_description_kinematics |-> EmptyDict,
     planning_pipelines |-> EmptyDict,
     trajectory_execution |-> EmptyDict,
     planning_scene_monitor |-> EmptyDict,
     sensors_3d |-> EmptyDict,
     move_group_capabilities |-> EmptyDict,
     joint_limits |-> EmptyDict,
     moveit_cpp |-> EmptyDict,
     pilz_cartesian_limits |-> EmptyDict]

\* the field a populated slot fills
FieldOf(section) == IF section = "sensors" THEN "sensors_3d" ELSE section

\* the value to_moveit_configs gives the field of a populated slot
FieldValue(world, section, entry) ==
    CASE section \in {"robot_description", "robot_description_semantic"} ->
            Under(section, DescriptionValue(world, entry))
      [] section = "robot_description_kinematics" ->
            Under("robot_description_kinematics",
                  AsMap(LoadYaml(world, entry.path, entry.mappings)))
      [] section = "joint_limits" ->
            Under("robot_description_planning",
                  AsMap(LoadYaml(world, entry.path, entry.mappings)))
      [] section = PLANNING_PIPELINES ->
            LoadPipelines(world, entry.pipelines, entry.configs,
                Ok(("planning_pipelines.pipeline_names" :> ListV(entry.pipelines))
                   @@ ("default_planning_pipeline" :> SVal(entry.default_planning_pipeline))))
      [] OTHER -> LoadYaml(world, entry.path, entry.mappings)

\* the order in which to_moveit_configs reads the slots
MaterializeOrder ==
    << "robot_description", "robot_description_semantic",
       "robot_description_kinematics", "planning_pipelines",
       "trajectory_execution", "sensors", "joint_limits", "moveit_cpp",
       "pilz_cartesian_limits" >>

SetField(rec, field, v) == IF ~v.ok THEN v ELSE Ok([rec EXCEPT ![field] = v.val])

MaterializeOne(world, sl, section, rec) ==
    IF sl[section] = None THEN Ok(rec)
    ELSE SetField(rec, FieldOf(section), FieldValue(world, section, sl[section]))

RECURSIVE Materialize(_, _, _, _)
Materialize(world, sl, order, acc) ==
    IF Len(order) = 0 \/ ~acc.ok THEN acc
    ELSE Materialize(world, sl, Tail(order),
                     MaterializeOne(world, sl, Head(order), acc.val))

\* to_moveit_configs
ToMoveitConfigs(world, sl) ==
    Materialize(world, sl, MaterializeOrder, Ok(EmptyMoveItConfigs))

\* dict.update: the keys of d are set in p
Update(p, d) == [k \in (DOMAIN p) \cup (DOMAIN d) |-> IF k \in DOMAIN d THEN d[k] ELSE p[k]]

RDP == "robot_description_planning"

\* the fields to_dict merges, in the order of its update calls
ToDictOrder ==
    << "robot_description", "robot_description_semantic",
       "robot_description_kinematics", "planning_pipelines",
       "trajectory_execution", "planning_scene_monitor", "sensors_3d",
       "joint_limits", "moveit_cpp" >>

\* lines 340-349: parameters after the update calls
RECURSIVE UpdateAll(_, _, _)
UpdateAll(rec, order, parameters) ==
    IF Len(order) = 0 THEN parameters
    ELSE UpdateAll(rec, Tail(order), Update(parameters, rec[Head(order)]))

\* the field of the record whose value for a key parameters holds: update
\* copies references, so the object under the key is the one of the last
\* field that has the key ("none" when no field has it)
RECURSIVE HolderOf(_, _, _, _)
HolderOf(rec, order, key, acc) ==
    IF Len(order) = 0 THEN acc
    ELSE HolderOf(rec, Tail(order), key,
                  IF key \in DOMAIN rec[Head(order)] THEN Head(order) ELSE acc)

\* what to_dict leaves: the mapping it returns, the record after the call,
\* and the field of the record the mapping under RDP is shared with
Dicted(parameters, rec, alias) ==
    [ok |-> TRUE, err |-> "none", val |-> parameters, rec |-> rec, alias |-> alias]

\* lines 353-355 with the update applied to the record's mapping after the
\* returned mapping was taken from it
MergeIntoRecordOnly(parameters, rec, holder, merged) ==
    Dicted(parameters, [rec EXCEPT ![holder] = Put(rec[holder], RDP, merged)], "none")

\* lines 353-355: update of the mapping under RDP, which is the object the
\* holding field of the record has under RDP
MergeInto(parameters, rec, holder, merged) ==
    Dicted(Put(parameters, RDP, merged),
           [rec EXCEPT ![holder] = Put(rec[holder], RDP, merged)],
           holder)

\* lines 351-357 with the pilz limits merged at the top level
MergePilzFlat(parameters, rec, holder) ==
    Dicted(Update(parameters, rec.pilz_cartesian_limits), rec, "none")

\* lines 351-357
MergePilz(parameters, rec, holder) ==
    IF DOMAIN rec.pilz_cartesian_limits = {} THEN Dicted(parameters, rec, "none")
    ELSE IF Get(parameters, RDP) = None
    THEN Dicted(Put(parameters, RDP, MapV(rec.pilz_cartesian_limits)), rec,
                "pilz_cartesian_limits")
    ELSE IF parameters[RDP].t # "map"
    THEN [ok |-> FALSE, err |-> "AttributeError", val |-> EmptyDict, rec |-> rec,
          alias |-> "none"]
    ELSE MergeInto(parameters, rec, holder,
                   MapV(Update(parameters[RDP].m, rec.pilz_cartesian_limits)))

\* MoveItConfigs.to_dict
ToDict(rec) ==
    MergePilz(UpdateAll(rec, ToDictOrder, EmptyDict), rec,
              HolderOf(rec, ToDictOrder, RDP, "none"))

(***************************************************************************)
(* The manifests on disk                                                   *)
(***************************************************************************)
File(name) == Str(<<"config", name>>)
Mapping1 == MapV("mapping1" :> SVal("value1"))
Mapping2 == MapV("mapping2" :> SVal("value2"))

BothPipelines ==
    DictV(<< Item("chomp", File("chomp_planning.yaml")),
             Item("ompl", File("ompl_planning.yaml")) >>)
ChompOnly == DictV(<< Item("chomp", File("chomp_planning.yaml")) >>)

\* a manifest file: its [moveit_configs] block (without extend) and its
\* substitution tables
Shape(hasBlock, block, maps) == [hasBlock |-> hasBlock, block |-> block, maps |-> maps]

NoBlockShape == Shape(FALSE, EmptyDict, "robot_description" :> Mapping1)
EmptyShape == Shape(TRUE, EmptyDict, EmptyDict)
RdShape == Shape(TRUE, "robot_description" :> File("a.urdf.xacro"),
                 "robot_description" :> Mapping1)
RdPlainShape == Shape(TRUE, "robot_description" :> File("x.yaml"), EmptyDict)
PpShape == Shape(TRUE, PLANNING_PIPELINES :> BothPipelines,
                 PLANNING_PIPELINES :>
                     MapV(("ompl" :> Mapping1) @@ ("mapping2" :> SVal("value2"))))
PpChompShape == Shape(TRUE,
                      ("robot_description" :> File("a.urdf.xacro"))
                      @@ (PLANNING_PIPELINES :> ChompOnly),
                      EmptyDict)
RestShape == Shape(TRUE,
                   [s \in SimpleSections \ {"robot_description"} |-> File("x.yaml")],
                   "sensors" :> Mapping2)
AllShape == Shape(TRUE,
                  [s \in DataSections |->
                      IF s = PLANNING_PIPELINES THEN BothPipelines
                      ELSE IF s = "robot_description" THEN File("a.urdf.xacro")
                      ELSE File("x.yaml")],
                  ("joint_limits" :> Mapping1) @@ (PLANNING_PIPELINES :> MapV("chomp" :> Mapping2)))
UriShape == Shape(TRUE, "sensors" :> Str(<<"package:", "", "pkgC", "config", "x.yaml">>),
                  EmptyDict)
BadTypeShape == Shape(TRUE, "moveit_cpp" :> NumV, EmptyDict)

\* the manifest a shape and an extend target (or None) give
Manifest(shape, extend) ==
    IF ~shape.hasBlock THEN shape.maps
    ELSE Put(shape.maps, MOVEIT_CONFIGS,
             IF extend = None THEN shape.block ELSE Put(shape.block, EXTEND, extend))

RelTarget(r) == Str(<<"..", r>>)
FileTarget(r) == Str(<<"..", r, TomlName>>)
NameTarget(r) == Str(<<"pkg" \o r>>)
UnknownTarget == Str(<<"nopkg">>)

\* a root: no manifest file, or the manifest file it holds
NoToml == [has |-> FALSE, configs |-> EmptyDict]
Toml(shape, extend) == [has |-> TRUE, configs |-> Manifest(shape, extend)]

World(a, b, c) ==
    LET of == [r \in Roots |-> IF r = "A" THEN a ELSE IF r = "B" THEN b ELSE c]
    IN  [hasToml |-> {r \in Roots : of[r].has},
         toml |-> [r \in Roots |-> of[r].configs]]

(***************************************************************************)
(* Inputs                                                                  *)
(***************************************************************************)
\* the roots of the worlds in which the resolver is followed
ResolveA ==
    {NoToml, Toml(NoBlockShape, None)}
    \cup { Toml(sh, e) :
             sh \in {EmptyShape, RdShape, PpShape, PpChompShape, RestShape, AllShape},
             e \in {None, RelTarget("B"), NameTarget("B"), FileTarget("B"),
                    RelTarget("A"), NameTarget("A"), UnknownTarget} }
ResolveB ==
    {NoToml}
    \cup { Toml(sh, e) :
             sh \in {EmptyShape, RdPlainShape, PpShape, RestShape, AllShape,
                     UriShape, BadTypeShape},
             e \in {None, RelTarget("C"), NameTarget("C"), RelTarget("A"),
                    RelTarget("B")} }
ResolveC ==
    { Toml(sh, e) :
        sh \in {EmptyShape, RdShape, RestShape, AllShape},
        e \in {None, RelTarget("A"), NameTarget("A")} }

\* the roots of the worlds in which a builder is used: a root on its own, or
\* a root that extends B
StandaloneA ==
    {NoToml, Toml(NoBlockShape, None), Toml(EmptyShape, None),
     Toml(RdShape, None), Toml(AllShape, RelTarget("B"))}
ExtendingA == { Toml(sh, RelTarget("B")) : sh \in {EmptyShape, RdShape, PpChompShape} }
ExtendedB ==
    {Toml(RdPlainShape, None), Toml(PpShape, RelTarget("C")), Toml(UriShape, RelTarget("C"))}

\* three roots chained by package names
NamedChain ==
    World(Toml(RdShape, NameTarget("B")), Toml(EmptyShape, NameTarget("C")),
          Toml(RestShape, None))

\* the package a builder is constructed for: a path or a package name
PackageArgs == {PathV(RootDir("A")), Str(<<"pkgA">>)}

\* the MoveItConfigs records to_dict is applied to: every field empty or
\* loaded, joint_limits and pilz_cartesian_limits with keys of their own and
\* keys in common; only joint_limits has the key RDP
JointLimitsFields ==
    {EmptyDict,
     RDP :> MapV("x" :> SVal("joint")),
     RDP :> MapV(("x" :> SVal("joint")) @@ ("y" :> SVal("joint")))}
PilzFields ==
    {EmptyDict,
     "y" :> SVal("pilz"),
     ("y" :> SVal("pilz")) @@ ("z" :> SVal("pilz"))}
LoadedOrNot(key, v) == {EmptyDict, key :> SVal(v)}
DictRecords ==
    {[EmptyMoveItConfigs EXCEPT
        !.robot_description = rd, !.planning_pipelines = pp,
        !.trajectory_execution = te, !.sensors_3d = se, !.joint_limits = jl,
        !.moveit_cpp = mc, !.pilz_cartesian_limits = pz] :
        rd \in LoadedOrNot("robot_description", "urdf"),
        pp \in LoadedOrNot("default_planning_pipeline", "ompl"),
        te \in LoadedOrNot("moveit_manage_controllers", "true"),
        se \in LoadedOrNot("sensors", "none"),
        jl \in JointLimitsFields,
        mc \in LoadedOrNot("planning_scene_monitor_options", "cpp"),
        pz \in PilzFields}

\* (file_path, mappings) of a single-file setter
SetterArgs ==
    { <<None, None>>, <<File("x.yaml"), None>>, <<File("x.yaml"), Mapping1>>,
      <<File("nofile.yaml"), None>> }

\* (pipelines, default_planning_pipeline, mappings) of planning_pipelines
PipelinesArgs ==
    { <<None, d, None>> : d \in {None, SVal("ompl"), SVal("chomp")} }
    \cup
    { <<ListV(l), d, None>> :
        l \in { <<"ompl">>, <<"chomp">>, <<"ompl", "chomp">>, <<"chomp", "chomp">>,
                <<"pilz">> },
        d \in {None, SVal("ompl"), SVal("chomp")} }
    \cup
    { <<ListV(<<"chomp", "ompl">>), d, Mapping1>> : d \in {None, SVal("chomp")} }

(***************************************************************************)
(* State machine                                                           *)
(***************************************************************************)
NoSlots == [s \in DataSections |-> None]
NoCall == [op |-> "none", err |-> "none", before |-> NoSlots]
NoFrame == [package_path |-> <<>>, configs |-> EmptyDict]

InitBuilder ==
    /\ pc = "new"
    /\ stack = <<>>
    /\ frame = NoFrame
    /\ err = "none"
    /\ package_path = <<>>
    /\ default_configs = EmptyDict
    /\ slots = NoSlots
    /\ calls = 0
    /\ last = NoCall
    /\ record = None

Init ==
    /\ \/ /\ \E a \in StandaloneA : fs = World(a, NoToml, NoToml)
          /\ package \in PackageArgs
       \/ /\ \E a \in ExtendingA, b \in ExtendedB : fs = World(a, b, Toml(RestShape, None))
          /\ package = PathV(RootDir("A"))
       \/ /\ fs = NamedChain
          /\ package = Str(<<"pkgA">>)
    /\ InitBuilder

InitResolve ==
    /\ \E a \in ResolveA, b \in ResolveB, c \in ResolveC : fs = World(a, b, c)
    /\ package \in PackageArgs
    /\ InitBuilder

\* __post_init__ given get_full_path's, get_package_path's and
\* load_moveit_configs_toml's results, up to its call of extend_configs
Constructed(full, pkg, loaded) ==
    IF ~full.ok \/ ~pkg.ok \/ ~loaded.ok
    THEN /\ pc' = "raised"
         /\ err' = (IF ~full.ok THEN full.err ELSE IF ~pkg.ok THEN pkg.err ELSE loaded.err)
         /\ UNCHANGED <<package_path, frame>>
    ELSE /\ pc' = "extending"
         /\ package_path' = pkg.val.p
         /\ frame' = [package_path |-> pkg.val.p, configs |-> loaded.val]
         /\ err' = err

LoadAt(world, full) == IF full.ok THEN LoadMoveitConfigsToml(world, full.val.p) ELSE full

\* __post_init__, up to its call of extend_configs
Construct ==
    /\ pc = "new"
    /\ Constructed(GetFullPath(fs, package), GetPackagePath(fs, package),
                   LoadAt(fs, GetFullPath(fs, package)))
    /\ UNCHANGED <<fs, package, stack, default_configs, slots, calls, last, record>>

\* what an invocation of extend_configs leads to
Extended(r) ==
    /\ pc' = (CASE r.kind = "return" -> "ready"
                [] r.kind = "raise" -> "raised"
                [] OTHER -> "extending")
    /\ default_configs' = (IF r.kind = "return" THEN r.configs ELSE default_configs)
    /\ err' = (IF r.kind = "raise" THEN r.err ELSE err)
    /\ frame' = (IF r.kind = "recurse"
                 THEN [package_path |-> r.package_path, configs |-> r.configs]
                 ELSE frame)

\* one invocation of extend_configs; its return ends __post_init__
ExtendStep ==
    /\ pc = "extending"
    /\ Len(stack) < MaxDepth
    /\ stack' = Append(stack, frame.package_path)
    /\ Extended(ExtendConfigs(fs, frame.package_path, frame.configs))
    /\ UNCHANGED <<fs, package, package_path, slots, calls, last, record>>

CanCall == pc = "ready" /\ calls < MaxCalls

\* the assignment of a setter, with every other slot reset
StoreAlone(section, call, e) ==
    /\ slots' = (IF e.ok THEN [NoSlots EXCEPT ![section] = e.val] ELSE slots)
    /\ last' = [call EXCEPT !.err = e.err]
    /\ calls' = calls + 1
    /\ UNCHANGED <<fs, package, pc, stack, frame, err, package_path, default_configs, record>>

\* the assignment of a setter: the slot is assigned when the entry is made
Store(section, call, e) ==
    /\ slots' = (IF e.ok THEN [slots EXCEPT ![section] = e.val] ELSE slots)
    /\ last' = [call EXCEPT !.err = e.err]
    /\ calls' = calls + 1
    /\ UNCHANGED <<fs, package, pc, stack, frame, err, package_path, default_configs, record>>

\* a single-file setter
Setter(section, file_path, mappings) ==
    /\ CanCall
    /\ Store(section,
             [op |-> section, file_path |-> file_path, mappings |-> mappings,
              err |-> "none", before |-> slots, root |-> package_path,
              manifest |-> default_configs],
             SetterEntry(fs, package_path, default_configs, section, file_path, mappings))

robot_description == \E a \in SetterArgs : Setter("robot_description", a[1], a[2])
robot_description_semantic ==
    \E a \in SetterArgs : Setter("robot_description_semantic", a[1], a[2])
robot_description_kinematics ==
    \E a \in SetterArgs : Setter("robot_description_kinematics", a[1], a[2])
joint_limits == \E a \in SetterArgs : Setter("joint_limits", a[1], a[2])
moveit_cpp == \E a \in SetterArgs : Setter("moveit_cpp", a[1], a[2])
trajectory_execution == \E a \in SetterArgs : Setter("trajectory_execution", a[1], a[2])
sensors == \E a \in SetterArgs : Setter("sensors", a[1], a[2])
pilz_cartesian_limits == \E a \in SetterArgs : Setter("pilz_cartesian_limits", a[1], a[2])

planning_pipelines ==
    /\ CanCall
    /\ \E a \in PipelinesArgs :
         Store(PLANNING_PIPELINES,
               [op |-> PLANNING_PIPELINES, pipelines |-> a[1], default |-> a[2],
                mappings |-> a[3], err |-> "none", before |-> slots,
                root |-> package_path, manifest |-> default_configs],
               PlanningPipelinesEntry(fs, package_path, default_configs, a[1], a[2], a[3]))

\* what a direct call of _make_config_entry_from_section leaves: the entry
\* it returns or the error it raises; no slot is assigned
EntryMade(call, e) ==
    /\ last' = [call EXCEPT !.err = e.err, !.entry = IF e.ok THEN e.val ELSE None]
    /\ calls' = calls + 1
    /\ UNCHANGED <<fs, package, pc, stack, frame, err, package_path, default_configs,
                   slots, record>>

\* _make_config_entry_from_section called for a section, or for one of its
\* sub-keys
make_config_entry_from_section ==
    /\ CanCall
    /\ \E section \in {"robot_description", PLANNING_PIPELINES},
          option \in {None, SVal("ompl"), SVal("pilz")} :
         EntryMade([op |-> "make_config_entry_from_section", section |-> section,
                    option |-> option, err |-> "none", entry |-> None, before |-> slots],
                   MakeConfigEntryFromSection(fs, package_path, default_configs,
                                              section, option))

\* load_all keeps the slots assigned before the setter that raised
Loaded(r) ==
    /\ slots' = r.slots
    /\ last' = [op |-> "load_all", err |-> r.err, before |-> slots]

load_all ==
    /\ CanCall
    /\ Loaded(LoadAll(fs, package_path, default_configs, slots))
    /\ calls' = calls + 1
    /\ UNCHANGED <<fs, package, pc, stack, frame, err, package_path, default_configs, record>>

Materialized(r) ==
    /\ record' = (IF r.ok THEN r.val ELSE record)
    /\ last' = [op |-> "to_moveit_configs", err |-> r.err, before |-> slots]

to_moveit_configs ==
    /\ CanCall
    /\ Materialized(ToMoveitConfigs(fs, slots))
    /\ calls' = calls + 1
    /\ UNCHANGED <<fs, package, pc, stack, frame, err, package_path, default_configs, slots>>

\* the result of the to_dict call before this one, when the last call was
\* to_dict too
Previous(call) ==
    IF call.op = "to_dict" /\ call.err = "none"
    THEN [val |-> call.result, alias |-> call.alias]
    ELSE None

ToDicted(r) ==
    /\ record' = r.rec
    /\ last' = [op |-> "to_dict", err |-> r.err, before |-> slots,
                record_before |-> record, result |-> r.val, alias |-> r.alias,
                previous |-> Previous(last)]

\* to_dict called on the record to_moveit_configs returned
to_dict ==
    /\ CanCall
    /\ record # None
    /\ ToDicted(ToDict(record))
    /\ calls' = calls + 1
    /\ UNCHANGED <<fs, package, pc, stack, frame, err, package_path, default_configs, slots>>

\* a record a caller holds
InitDict ==
    /\ fs = World(NoToml, NoToml, NoToml)
    /\ package = PathV(RootDir("A"))
    /\ pc = "ready"
    /\ stack = <<RootDir("A")>>
    /\ frame = [package_path |-> RootDir("A"), configs |-> EmptyDict]
    /\ err = "none"
    /\ package_path = RootDir("A")
    /\ default_configs = EmptyDict
    /\ slots = NoSlots
    /\ calls = 0
    /\ last = NoCall
    /\ record \in DictRecords

NextDict == to_dict

NextResolve == Construct \/ ExtendStep

Next ==
    \/ Construct
    \/ ExtendStep
    \/ robot_description
    \/ robot_description_semantic
    \/ robot_description_kinematics
    \/ joint_limits
    \/ moveit_cpp
    \/ trajectory_execution
    \/ sensors
    \/ planning_pipelines
    \/ pilz_cartesian_limits
    \/ make_config_entry_from_section
    \/ load_all
    \/ to_moveit_configs
    \/ to_dict

Spec == Init /\ [][Next]_vars
SpecResolve == InitResolve /\ [][NextResolve]_vars
SpecDict == InitDict /\ [][NextDict]_vars

(***************************************************************************)
(* What the manifests on disk declare, read off the files themselves       *)
(***************************************************************************)
\* the root a directory path leads to
RootOfDir(p) == Norm(p)[2]

\* the root the builder is constructed for
RequestedRoot ==
    RootOfDir(IF package.t = "path" THEN package.p ELSE PackageIndex[package.s[1]])

\* the value root r declares for a section in its own [moveit_configs] block
LocalValue(r, section) == Get(Block(fs.toml[r]), section)

\* the root that root r declares as its base: "none" without an extend key,
\* "unknown" for a name no package has and for a manifest file that is not
\* there
TargetOf(e) ==
    IF e = None THEN "none"
    ELSE IF e.s[1] = ".."
    THEN (IF Len(e.s) = 3 /\ e.s[2] \notin fs.hasToml THEN "unknown" ELSE e.s[2])
    ELSE IF e.s[1] \in DOMAIN PackageIndex THEN RootOfDir(PackageIndex[e.s[1]])
    ELSE "unknown"
DeclaredTarget(r) == TargetOf(LocalValue(r, EXTEND))

\* the extend target of r is a path relative to r
ByPath(r) == LocalValue(r, EXTEND) # None /\ LocalValue(r, EXTEND).s[1] = ".."

\* the first n roots of the chain of extend declarations that starts at r
RECURSIVE Chain(_, _)
Chain(r, n) ==
    IF n = 0 THEN <<>>
    ELSE <<r>> \o (IF DeclaredTarget(r) \in Roots THEN Chain(DeclaredTarget(r), n - 1)
                   ELSE <<>>)

NumRoots == Cardinality(Roots)
ChainRoots(r) == {Chain(r, NumRoots)[i] : i \in 1..Len(Chain(r, NumRoots))}

\* the chain from r comes back to r
OnCycle(r) == \E i \in 2..Len(Chain(r, NumRoots + 1)) : Chain(r, NumRoots + 1)[i] = r

\* the chain from r ends at a root that declares no extend
EndsAtBase(r) ==
    /\ Len(Chain(r, NumRoots + 1)) <= NumRoots
    /\ DeclaredTarget(Chain(r, NumRoots)[Len(Chain(r, NumRoots))]) = "none"

\* the nearest root that declares the section among the first n roots of the
\* chain from r, or "none"
RECURSIVE NearestWithin(_, _, _)
NearestWithin(r, section, n) ==
    IF n = 0 THEN "none"
    ELSE IF LocalValue(r, section) # None THEN r
    ELSE IF DeclaredTarget(r) \in Roots THEN NearestWithin(DeclaredTarget(r), section, n - 1)
    ELSE "none"
Nearest(r, section) == NearestWithin(r, section, NumRoots)

\* the file a path value declared in root r's manifest names
DeclaredFile(r, lv) ==
    IF IsPackageUri(lv) THEN PackageIndex[lv.s[3]] \o SubSeq(lv.s, 4, Len(lv.s))
    ELSE Norm(RootDir(r) \o lv.s)

\* v is the path of the file that root r's declared value lv names
PathFrom(v, r, lv) == v.t = "path" /\ lv.t = "str" /\ Norm(v.p) = DeclaredFile(r, lv)

\* v is root r's declared value lv with every path rewritten to r
ValueFrom(v, r, lv) ==
    IF lv.t = "dict"
    THEN /\ v.t = "dict"
         /\ Keys(v.items) = Keys(lv.items)
         /\ \A i \in 1..Len(lv.items) : PathFrom(v.items[i].v, r, lv.items[i].v)
    ELSE PathFrom(v, r, lv)

\* every value the manifests declare is a path or a sub-mapping of paths
WellTyped == \A r \in Roots, sec \in DataSections : LocalValue(r, sec).t # "num"

\* the manifest extend_configs holds: the one returned, or the one passed on
Current == IF pc = "ready" THEN default_configs ELSE frame.configs
Resolved(section) == Get(Block(Current), section)

(***************************************************************************)
(* Manifest resolution                                                     *)
(***************************************************************************)
\* the values the requested root declares itself are in the manifest as declared
LocalKept ==
    \A sec \in DataSections :
        LocalValue(RequestedRoot, sec) # None
            => Resolved(sec) = LocalValue(RequestedRoot, sec)

\* a value the requested root does not declare is the one of the nearest root
\* on its chain that declares it
NearestKept ==
    \A sec \in DataSections :
        (LocalValue(RequestedRoot, sec) = None /\ Resolved(sec) # None)
            => LET near == Nearest(RequestedRoot, sec)
               IN  near \in Roots /\ ValueFrom(Resolved(sec), near, LocalValue(near, sec))

\* C1: in the manifest extend_configs passes on or returns, every data
\* section the requested root declares has the value that root declares,
\* and every other section present has the value of the nearest root on the
\* chain that declares it, never that of a farther one.
LocalWins == pc \in {"extending", "ready"} => LocalKept /\ NearestKept

\* a returned manifest of a three-root chain in which the third root also
\* declares a section the first declares and a section taken from the second
LocalWinsWitness ==
    /\ pc = "ready"
    /\ Len(stack) = 3
    /\ \E sec \in DataSections :
         /\ LocalValue(RequestedRoot, sec) # None
         /\ LocalValue(RootOfDir(stack[3]), sec) # None
         /\ LocalValue(RootOfDir(stack[3]), sec) # LocalValue(RequestedRoot, sec)
    /\ \E sec \in DataSections :
         /\ Nearest(RequestedRoot, sec) = RootOfDir(stack[2])
         /\ RootOfDir(stack[2]) # RequestedRoot
         /\ LocalValue(RootOfDir(stack[3]), sec) # None
         /\ RootOfDir(stack[3]) # RootOfDir(stack[2])

\* the chain from the requested root is X -> Y -> Z, three different roots,
\* and Z extends nothing
ThreeRootChain ==
    /\ Len(Chain(RequestedRoot, NumRoots + 1)) = 3
    /\ EndsAtBase(RequestedRoot)

\* the sections only the third root of the chain declares
OnlyInThird ==
    {sec \in DataSections :
        /\ LocalValue(Chain(RequestedRoot, 3)[1], sec) = None
        /\ LocalValue(Chain(RequestedRoot, 3)[2], sec) = None
        /\ LocalValue(Chain(RequestedRoot, 3)[3], sec) # None}

\* C2: for a chain X -> Y -> Z, whether a target is a relative path or a
\* package name, resolving X raises no error and gives every section that
\* only Z declares the value of Z, rewritten to Z.
TransitiveFill ==
    (WellTyped /\ ThreeRootChain) =>
        /\ pc # "raised"
        /\ pc = "ready" =>
             \A sec \in OnlyInThird :
                 ValueFrom(Resolved(sec), Chain(RequestedRoot, 3)[3],
                           LocalValue(Chain(RequestedRoot, 3)[3], sec))

\* some data section is declared by no root of the chain from r
Uncovered(r) ==
    \E sec \in DataSections : \A q \in ChainRoots(r) : LocalValue(q, sec) = None

\* every extend target on the chain from r is a relative path
AllByPath(r) == \A q \in ChainRoots(r) : ByPath(q)

FromManifest(call) == call.op \in SimpleSections /\ ~Truthy(call.file_path)

\* the last call was planning_pipelines, given no names
PipelinesFromManifestCall(call) == call.op = PLANNING_PIPELINES /\ call.pipelines = None

\* a declared value is a path relative to the root that declares it
IsRelative(lv) == lv.t = "str" /\ ~IsPackageUri(lv) /\ ~IsAbsolute(lv.s)

\* path is R/p for the root R as the resolver reached it, which is the
\* directory of R and not the directory of the requested root
UnderRoot(path, r, rel) ==
    /\ \E i \in 1..Len(stack) : RootOfDir(stack[i]) = r /\ path = stack[i] \o rel
    /\ Norm(path) = RootDir(r) \o rel
    /\ Norm(path) # RootDir(RequestedRoot) \o rel

\* the entry of a single-file section taken from an ancestor
SingleRewritten(section) ==
    LET near == Nearest(RequestedRoot, section)
    IN  /\ near \in Roots
        /\ IsRelative(LocalValue(near, section))
              => UnderRoot(slots[section].path, near, LocalValue(near, section).s)

\* the entries of a multi-variant section taken from an ancestor
VariantsRewritten(section) ==
    LET near == Nearest(RequestedRoot, section)
    IN  /\ near \in Roots
        /\ slots[section].pipelines = Keys(LocalValue(near, section).items)
        /\ Len(slots[section].configs) = Len(LocalValue(near, section).items)
        /\ \A i \in 1..Len(LocalValue(near, section).items) :
              IsRelative(LocalValue(near, section).items[i].v)
                 => UnderRoot(slots[section].configs[i].path, near,
                              LocalValue(near, section).items[i].v.s)

\* C3: a setter called without a path for a section the requested root X
\* does not declare builds an entry whose path is R/p, for R the nearest
\* root that declares the section and p the relative path R declares, and
\* not X/p; planning_pipelines called without names builds for every sub-key
\* k that R declares the entry R/p_k, under k and in R's order.
PathRewriting ==
    /\ (FromManifest(last) /\ last.err = "none"
            /\ LocalValue(RequestedRoot, last.op) = None)
          => SingleRewritten(last.op)
    /\ (PipelinesFromManifestCall(last) /\ last.err = "none"
            /\ LocalValue(RequestedRoot, PLANNING_PIPELINES) = None)
          => VariantsRewritten(PLANNING_PIPELINES)

\* planning_pipelines has built two entries from the sub-mapping of an
\* ancestor, each with a relative path
PathRewritingWitness ==
    /\ PipelinesFromManifestCall(last)
    /\ last.err = "none"
    /\ LocalValue(RequestedRoot, PLANNING_PIPELINES) = None
    /\ Len(slots[PLANNING_PIPELINES].configs) = 2
    /\ Nearest(RequestedRoot, PLANNING_PIPELINES) # RequestedRoot
    /\ \A i \in 1..2 :
          IsRelative(LocalValue(Nearest(RequestedRoot, PLANNING_PIPELINES),
                                PLANNING_PIPELINES).items[i].v)

\* the substitution table the resolved manifest holds for a section, for a
\* sub-key when one is asked for: None when it holds none
TableOf(section, option) ==
    IF option = None THEN Get(default_configs, section)
    ELSE IF Get(default_configs, section).t # "map" THEN None
    ELSE Get(Get(default_configs, section).m, option.v)

\* an entry's mappings are a mapping, the empty one when the manifest holds
\* no table
MappingOf(entry, section, option) ==
    /\ entry.mappings.t = "map"
    /\ TableOf(section, option) = None => entry.mappings = EmptyMap

\* C4: every entry _make_config_entry_from_section returns, whether the
\* section is declared by the requested root or inherited, has a mapping as
\* its mappings, and the empty mapping when the resolved manifest holds no
\* substitution table for the section (or for the sub-key).
MappingsNeverNull ==
    /\ (FromManifest(last) /\ last.err = "none")
          => MappingOf(slots[last.op], last.op, None)
    /\ (PipelinesFromManifestCall(last) /\ last.err = "none")
          => \A i \in 1..Len(slots[PLANNING_PIPELINES].configs) :
                MappingOf(slots[PLANNING_PIPELINES].configs[i], PLANNING_PIPELINES,
                          SVal(slots[PLANNING_PIPELINES].pipelines[i]))
    /\ (last.op = "make_config_entry_from_section" /\ last.err = "none")
          => MappingOf(last.entry, last.section, last.option)

(***************************************************************************)
(* planning_pipelines                                                      *)
(***************************************************************************)
\* the sub-mapping the resolved manifest holds for planning_pipelines
ManifestPipelines == GetD(Block(default_configs), PLANNING_PIPELINES, DictV(<<>>))

\* the names a call of planning_pipelines works with: those passed, or the
\* sub-keys of the resolved manifest
NamesOf(call) ==
    IF call.pipelines # None THEN call.pipelines.l ELSE Keys(ManifestPipelines.items)

\* the file of a pipeline passed by name
PipelineFile(name) == package_path \o <<"config", name \o "_planning.yaml">>

\* the entry of every name of the call can be built
Buildable(call) ==
    IF call.pipelines # None
    THEN \A i \in 1..Len(call.pipelines.l) : Exists(fs, PipelineFile(call.pipelines.l[i]))
    ELSE \A i \in 1..Len(ManifestPipelines.items) :
            ManifestPipelines.items[i].v.t \in {"str", "path"}

\* the call stored the default d
StoredDefault(d) ==
    /\ last.err = "none"
    /\ slots[PLANNING_PIPELINES].t = "pipelines"
    /\ slots[PLANNING_PIPELINES].default_planning_pipeline = d
    /\ slots[PLANNING_PIPELINES].pipelines = NamesOf(last)

\* the call failed with the invalid-default error and assigned nothing
DefaultRejected == last.err = InvalidDefault /\ slots = last.before

\* the three cases of the default, for the names of the call
DefaultCases ==
    IF last.default = None /\ InList("ompl", NamesOf(last)) THEN StoredDefault("ompl")
    ELSE IF last.default # None /\ InList(last.default.v, NamesOf(last))
    THEN StoredDefault(last.default.v)
    ELSE DefaultRejected

\* C6 as stated: planning_pipelines stores "ompl" when no default is given
\* and "ompl" is a name, stores the given default when it is a name, and in
\* every other case fails with the invalid-default error and assigns nothing.
DefaultSelection == last.op = PLANNING_PIPELINES => DefaultCases

\* C6: when the entry of every pipeline name can be built, planning_pipelines
\* stores "ompl" (no default given, "ompl" a name) or the given default (a
\* name), and in every other case fails with the invalid-default error; when
\* an entry cannot be built it fails with that entry's error, whatever the
\* default; a failing call assigns nothing.
DefaultSelectionBuilt ==
    last.op = PLANNING_PIPELINES =>
        IF Buildable(last) THEN DefaultCases
        ELSE /\ last.err \notin {"none", InvalidDefault}
             /\ slots = last.before

\* a call whose names have no "ompl" and which gives no default has failed
\* with the invalid-default error, all entries being buildable
DefaultSelectionWitness ==
    /\ last.op = PLANNING_PIPELINES
    /\ Buildable(last)
    /\ Len(NamesOf(last)) > 0
    /\ last.default = None
    /\ ~InList("ompl", NamesOf(last))
    /\ DefaultRejected

\* the names are pairwise distinct
Distinct(names) == \A i, j \in 1..Len(names) : names[i] = names[j] => i = j

\* the file the resolved manifest gives the sub-key name: "none" without one
ManifestFileOf(name) ==
    IF ~InList(name, Keys(ManifestPipelines.items)) THEN <<"none">>
    ELSE IF ItemGet(ManifestPipelines.items, name).t = "path"
    THEN Norm(ItemGet(ManifestPipelines.items, name).p)
    ELSE DeclaredFile(RequestedRoot, ItemGet(ManifestPipelines.items, name))

\* the entry is the one of the pipeline of that name: its file is
\* config/<name>_planning.yaml of the builder's root, or the file the
\* resolved manifest gives the sub-key
Belongs(entry, name) ==
    /\ entry.t = "entry"
    /\ \/ entry.path = PipelineFile(name)
       \/ Norm(entry.path) = ManifestFileOf(name)

\* one entry per name, in the order of the names, and the default is a name
OneEntryPerName(slot) ==
    /\ Len(slot.configs) = Len(slot.pipelines)
    /\ \A i \in 1..Len(slot.pipelines) : Belongs(slot.configs[i], slot.pipelines[i])
    /\ InList(slot.default_planning_pipeline, slot.pipelines)

\* C7 as stated: a populated planning-pipelines slot has pairwise distinct
\* names, one entry per name in the same order, and a default that is one of
\* the names.
PipelinesSlotUnique ==
    slots[PLANNING_PIPELINES] # None =>
        /\ Distinct(slots[PLANNING_PIPELINES].pipelines)
        /\ OneEntryPerName(slots[PLANNING_PIPELINES])

\* C7: a populated planning-pipelines slot has one entry per name in the
\* same order and a default that is one of the names; names discovered from
\* the manifest are pairwise distinct, names passed by the caller are stored
\* as passed, repetitions included.
PipelinesSlotOrdered ==
    /\ slots[PLANNING_PIPELINES] # None => OneEntryPerName(slots[PLANNING_PIPELINES])
    /\ (last.op = PLANNING_PIPELINES /\ last.err = "none") =>
          /\ slots[PLANNING_PIPELINES].pipelines = NamesOf(last)
          /\ last.pipelines = None => Distinct(slots[PLANNING_PIPELINES].pipelines)

\* the slot holds two pipelines discovered from the manifest
PipelinesSlotWitness ==
    /\ last.op = PLANNING_PIPELINES
    /\ last.err = "none"
    /\ last.pipelines = None
    /\ Len(slots[PLANNING_PIPELINES].pipelines) = 2

(***************************************************************************)
(* load_all and explicit paths                                             *)
(***************************************************************************)
\* C8: when load_all returns, the slot of a data section with a value in the
\* [moveit_configs] block of the resolved manifest is populated and every
\* other slot is as it was, so empty on a builder whose slots were empty;
\* with an empty manifest load_all raises nothing and populates nothing, and
\* to_moveit_configs on empty slots gives a record with every field empty.
LoadAllPopulatesExisting ==
    /\ (last.op = "load_all" /\ last.err = "none") =>
          \A sec \in DataSections :
              IF Get(Block(default_configs), sec) # None THEN slots[sec] # None
              ELSE slots[sec] = last.before[sec]
    /\ (last.op = "load_all" /\ DOMAIN default_configs = {}) =>
          last.err = "none" /\ slots = last.before
    /\ (last.op = "to_moveit_configs" /\ last.before = NoSlots) =>
          last.err = "none" /\ record = EmptyMoveItConfigs

\* load_all has returned on a builder whose slots were empty, with a slot
\* populated and a slot left empty; the manifest still holds its extend key
LoadAllWitness ==
    /\ last.op = "load_all"
    /\ last.err = "none"
    /\ last.before = NoSlots
    /\ \E sec \in DataSections : slots[sec] # None
    /\ \E sec \in DataSections : slots[sec] = None

\* the mappings a caller passes, empty when none are passed
CallerMappings(m) == IF m = None THEN EmptyMap ELSE m

\* C9: a single-file setter called with a path that exists under the
\* builder's root, and planning_pipelines called with names whose
\* config/<name>_planning.yaml exist and a valid default, succeed and store
\* the builder's root joined with the path and the caller's mappings (empty
\* when none), whatever the resolved manifest holds.
ExplicitOverride ==
    /\ (last.op \in SimpleSections /\ Truthy(last.file_path)
            /\ Exists(fs, package_path \o last.file_path.s)) =>
          /\ last.err = "none"
          /\ slots[last.op] = ConfigEntry(package_path \o last.file_path.s,
                                          CallerMappings(last.mappings))
    /\ (last.op = PLANNING_PIPELINES /\ last.pipelines # None /\ Buildable(last)
            /\ (IF last.default = None THEN InList("ompl", last.pipelines.l)
                ELSE InList(last.default.v, last.pipelines.l))) =>
          /\ last.err = "none"
          /\ slots[PLANNING_PIPELINES].pipelines = last.pipelines.l
          /\ Len(slots[PLANNING_PIPELINES].configs) = Len(last.pipelines.l)
          /\ \A i \in 1..Len(last.pipelines.l) :
                slots[PLANNING_PIPELINES].configs[i] =
                    ConfigEntry(PipelineFile(last.pipelines.l[i]),
                                CallerMappings(last.mappings))

\* a setter given a path and mappings has stored its entry on a builder
\* whose root has no manifest file
ExplicitOverrideWitness ==
    /\ last.op \in SimpleSections
    /\ Truthy(last.file_path)
    /\ last.mappings # None
    /\ last.err = "none"
    /\ DOMAIN default_configs = {}
    /\ RequestedRoot \notin fs.hasToml

(***************************************************************************)
(* Sections no root declares                                               *)
(***************************************************************************)
\* no root on the chain from r declares the section
NobodyDeclares(r, section) == \A q \in ChainRoots(r) : LocalValue(q, section) = None

\* the errors _make_config_entry_from_section and planning_pipelines raise
\* for what the manifest lacks
ConfigurationErrors == {NotLoaded, NoBlock, NoValue, NoOption, InvalidDefault}

\* the chain of the requested root ends at a root that extends nothing, every
\* target on it is a root, and every declared value is well typed
ChainEnds == EndsAtBase(RequestedRoot) /\ WellTyped

\* resolution of such a chain raises no error
ResolutionCompletes == ChainEnds => pc # "raised"

\* a section no root of the chain declares is absent from the resolved
\* manifest
StaysAbsent ==
    (ChainEnds /\ pc = "ready") =>
        \A sec \in DataSections :
            NobodyDeclares(RequestedRoot, sec) => Get(Block(default_configs), sec) = None

\* the last call asked the manifest for a section
AskedManifest(call) ==
    \/ FromManifest(call)
    \/ PipelinesFromManifestCall(call)
    \/ call.op = "make_config_entry_from_section" /\ call.option = None

AskedSection(call) ==
    IF call.op = "make_config_entry_from_section" THEN call.section ELSE call.op

\* a call that asks the manifest for a section it does not hold (the manifest
\* may be empty or without [moveit_configs] block), or for a sub-key the
\* section does not hold, fails with a configuration error and assigns nothing
MissingFails ==
    /\ (AskedManifest(last) /\ Get(Block(default_configs), AskedSection(last)) = None)
          => last.err \in ConfigurationErrors /\ slots = last.before
    /\ (last.op = "make_config_entry_from_section" /\ last.option # None
            /\ Get(Block(default_configs), last.section).t = "dict"
            /\ ~InList(last.option.v, Keys(Get(Block(default_configs), last.section).items)))
          => last.err = NoOption /\ slots = last.before

\* what holds of a section no root declares once resolution has completed
MissingSectionHandled == StaysAbsent /\ MissingFails

\* C10: for a chain in which no root declares data section s, resolution
\* completes without error and s is absent from the resolved manifest; the
\* setter of s called without a path then fails with a configuration error
\* (also with an empty manifest, without [moveit_configs] block, or for a
\* sub-key without value) and the slots are as before the call.
MissingSection == ResolutionCompletes /\ MissingSectionHandled

(***************************************************************************)
(* Pilz cartesian limits in the flattened mapping                          *)
(***************************************************************************)
\* the last call was to_dict on a record with pilz cartesian limits
DictedWithPilz(call) ==
    /\ call.op = "to_dict"
    /\ DOMAIN call.record_before.pilz_cartesian_limits # {}

\* the mapping m holds every pair of the mapping d
Holds(m, d) == \A k \in DOMAIN d : k \in DOMAIN m /\ m[k] = d[k]

\* the keys of the joint limits of a record that its pilz limits do not have
JointOnly(rec) ==
    IF RDP \in DOMAIN rec.joint_limits
    THEN (DOMAIN rec.joint_limits[RDP].m) \ (DOMAIN rec.pilz_cartesian_limits)
    ELSE {}

\* the mapping under RDP holds the pilz pairs, next to the joint limits the
\* pilz limits do not replace; without joint limits it holds the pilz pairs
\* only
NestedUnder(nested, rec) ==
    /\ nested.t = "map"
    /\ Holds(nested.m, rec.pilz_cartesian_limits)
    /\ \A k \in JointOnly(rec) :
          k \in DOMAIN nested.m /\ nested.m[k] = rec.joint_limits[RDP].m[k]
    /\ DOMAIN nested.m = (DOMAIN rec.pilz_cartesian_limits) \cup JointOnly(rec)

\* C11: for every record with non-empty pilz_cartesian_limits, to_dict
\* returns a mapping with the key robot_description_planning; the mapping
\* under it holds every pilz key with the pilz value, next to the other keys
\* of the joint limits when joint_limits was loaded, and alone when it was
\* not.
PilzNested ==
    DictedWithPilz(last) =>
        /\ last.err = "none"
        /\ RDP \in DOMAIN last.result
        /\ NestedUnder(last.result[RDP], last.record_before)

\* to_dict ran on a record with joint limits and pilz limits that share a key
\* and each have a key of their own
PilzNestedWitness ==
    /\ DictedWithPilz(last)
    /\ JointOnly(last.record_before) # {}
    /\ \E k \in DOMAIN last.record_before.pilz_cartesian_limits :
          /\ k \in DOMAIN last.record_before.joint_limits[RDP].m
          /\ last.record_before.joint_limits[RDP].m[k]
                # last.record_before.pilz_cartesian_limits[k]
    /\ \E k \in DOMAIN last.record_before.pilz_cartesian_limits :
          k \notin DOMAIN last.record_before.joint_limits[RDP].m
    /\ last.previous = None

(***************************************************************************)
(* Two calls of to_dict                                                    *)
(***************************************************************************)
\* a mapping to_dict returned earlier, as it reads now: under RDP it holds
\* the object it shares with the record
Through(returned, rec) ==
    CASE returned.alias = "none" -> returned.val
      [] returned.alias = "pilz_cartesian_limits" ->
            Put(returned.val, RDP, MapV(rec.pilz_cartesian_limits))
      [] OTHER -> Put(returned.val, RDP, rec[returned.alias][RDP])

\* the last two calls were to_dict on the same record
DictedTwice(call) == call.op = "to_dict" /\ call.previous # None

\* C12: two consecutive calls of to_dict on a record return equal mappings,
\* for every combination of populated fields: the second mapping equals the
\* first as it was returned and as it reads after the second call.
ToDictIdempotent ==
    DictedTwice(last) =>
        /\ last.err = "none"
        /\ last.result = last.previous.val
        /\ last.result = Through(last.previous, record)

\* to_dict ran twice on a record that had joint limits and pilz limits
\* before the first call
ToDictTwiceWitness ==
    /\ DictedTwice(last)
    /\ calls = 2
    /\ RDP \in DOMAIN record.joint_limits
    /\ DOMAIN record.pilz_cartesian_limits # {}
    /\ last.previous.alias = "joint_limits"
    /\ DOMAIN record.robot_description # {}

(***************************************************************************)
(* The record after to_dict                                                *)
(***************************************************************************)
\* C14: after a call of to_dict every field of the record equals its value
\* before the call; joint_limits["robot_description_planning"] does not gain
\* the pilz keys.
RecordUnchanged ==
    last.op = "to_dict" =>
        /\ record = last.record_before
        /\ (RDP \in DOMAIN last.record_before.joint_limits =>
               DOMAIN record.joint_limits[RDP].m
                   = DOMAIN last.record_before.joint_limits[RDP].m)

\* the fields of the record other than joint_limits are as before the call
OtherFieldsUnchanged ==
    last.op = "to_dict" =>
        \A f \in (DOMAIN record) \ {"joint_limits"} : record[f] = last.record_before[f]

(***************************************************************************)
(* Substitution keys of the whole [planning_pipelines] table               *)
(***************************************************************************)
\* the [planning_pipelines] table of the resolved manifest
PipelinesTable == Get(default_configs, PLANNING_PIPELINES)

\* the keys the table holds directly, not under a pipeline's sub-table
SectionWide(table) == {k \in DOMAIN table.m : table.m[k].t # "map"}

\* the pairs of the pipeline's own sub-table
OwnPairs(table, name) ==
    IF name \in DOMAIN table.m /\ table.m[name].t = "map" THEN table.m[name].m ELSE EmptyDict

\* the entry of a pipeline carries the section-wide pairs and its own
CarriesPairs(entry, table, name) ==
    /\ entry.mappings.t = "map"
    /\ \A k \in SectionWide(table) :
          k \in DOMAIN entry.mappings.m /\ entry.mappings.m[k] = table.m[k]
    /\ Holds(entry.mappings.m, OwnPairs(table, name))

\* the pairs of its own sub-table are among an entry's mappings
CarriesOwnPairs(entry, table, name) ==
    OwnPairs(table, name) # EmptyDict =>
        entry.mappings.t = "map" /\ Holds(entry.mappings.m, OwnPairs(table, name))

\* planning_pipelines built its entries from a manifest with a
\* [planning_pipelines] table
BuiltWithTable(call) ==
    /\ PipelinesFromManifestCall(call)
    /\ call.err = "none"
    /\ PipelinesTable.t = "map"

\* C13: when the [planning_pipelines] table of the manifest holds
\* substitution keys directly, every entry planning_pipelines builds from the
\* manifest carries those pairs in its mappings, in addition to the pairs of
\* the pipeline's own sub-table.
SectionWideMappings ==
    BuiltWithTable(last) =>
        \A i \in 1..Len(slots[PLANNING_PIPELINES].configs) :
            CarriesPairs(slots[PLANNING_PIPELINES].configs[i], PipelinesTable,
                         slots[PLANNING_PIPELINES].pipelines[i])

\* the part that holds: every entry carries the pairs of its own sub-table
OwnMappings ==
    BuiltWithTable(last) =>
        \A i \in 1..Len(slots[PLANNING_PIPELINES].configs) :
            CarriesOwnPairs(slots[PLANNING_PIPELINES].configs[i], PipelinesTable,
                            slots[PLANNING_PIPELINES].pipelines[i])

(***************************************************************************)
(* Setters and the slots of other sections                                 *)
(***************************************************************************)
\* the entry a setter call builds: from the file system, the root path, the
\* resolved manifest and its arguments, not from the slots
BuiltBy(call) ==
    IF call.op = PLANNING_PIPELINES
    THEN PlanningPipelinesEntry(fs, package_path, default_configs,
                                call.pipelines, call.default, call.mappings)
    ELSE SetterEntry(fs, package_path, default_configs, call.op, call.file_path,
                     call.mappings)

\* the last call was a section setter and it returned
SetterReturned(call) == call.op \in DataSections /\ call.err = "none"

\* the slots after the call are those before it, with the call's entry in
\* the slot of its section
OnlyOwnSlot(call) ==
    /\ slots = [call.before EXCEPT ![call.op] = BuiltBy(call).val]
    /\ \A sec \in DataSections \ {call.op} : slots[sec] = call.before[sec]

\* C15: every successful section-setter call changes only the slot of its
\* own section, to the entry built from its arguments, and leaves the other
\* slots, the root path and the resolved manifest as they were before the
\* call; so the slot of a section is the entry of the last call for it, and
\* calls for different sections give the same slots in either order.
SettersIndependent ==
    SetterReturned(last) =>
        /\ OnlyOwnSlot(last)
        /\ package_path = last.root
        /\ default_configs = last.manifest

\* a setter has replaced the entry of its section that an earlier call had
\* stored, next to the populated slot of another section
SettersWitness ==
    /\ calls = 2
    /\ last.op \in DataSections
    /\ last.err = "none"
    /\ last.before[last.op] # None
    /\ slots[last.op] # last.before[last.op]
    /\ \E sec \in DataSections \ {last.op} : slots[sec] # None

(***************************************************************************)
(* Calls that raise                                                        *)
(***************************************************************************)
\* the last call was a builder call and it raised
Raised(call) == call.op # "none" /\ call.err # "none"

\* C16: every builder call that raises leaves every slot equal to its value
\* before the call: each section setter, planning_pipelines, and load_all.
NoPartialResult == Raised(last) => slots = last.before

\* the part that holds: a section setter or planning_pipelines that raises
\* assigns nothing, and load_all that raises leaves each slot as it was or
\* holding the entry its setter built
SingleCallsAssignNothing ==
    /\ (Raised(last) /\ last.op # "load_all") => slots = last.before
    /\ (Raised(last) /\ last.op = "load_all") =>
          \A sec \in DataSections :
              \/ slots[sec] = last.before[sec]
              \/ /\ Get(Block(default_configs), sec) # None
                 /\ slots[sec] # None

(***************************************************************************)
(* Chains without a cycle                                                  *)
(***************************************************************************)
\* the number of roots on the chain from the requested root to the first
\* root that declares no extend
ChainLength == Len(Chain(RequestedRoot, NumRoots))

\* extend_configs has been invoked at most once per root of the chain, and
\* no invocation is to come once it has been invoked for each of them
WithinChain ==
    /\ Len(stack) <= ChainLength
    /\ pc = "extending" => Len(stack) < ChainLength

\* every root of the chain other than the requested one names its base by
\* a relative path
OthersByPath(r) == \A q \in ChainRoots(r) \ {r} : DeclaredTarget(q) = "none" \/ ByPath(q)

\* C17: for roots whose extend declarations end at a root that declares no
\* extend, every target being a root, extend_configs raises no error and
\* returns after at most one invocation per root of the chain.
AcyclicTerminates == ChainEnds => (pc # "raised" /\ WithinChain)

\* the part that holds: chains in which only the requested root names its
\* base by package name
AcyclicByPathTerminates ==
    (ChainEnds /\ OthersByPath(RequestedRoot)) => (pc # "raised" /\ WithinChain)

====
